---- MODULE Spec2Model ----
(***************************************************************************)
(* PatchMasterRecipeMaker (src/Proces/PatchMasterRecipeMaker.py): an       *)
(* AutoPkg processor that resolves a parent recipe, assembles a recipe     *)
(* document, orders it, serialises it as plist or yaml and writes it.      *)
(*                                                                         *)
(* Conventions of the model                                                *)
(*  - a Python str is a sequence of pieces; the pieces are single          *)
(*    characters wherever the code looks inside the string (replace, in,   *)
(*    basename, concatenation of the identifier), and one whole literal    *)
(*    for values the code only passes along;                               *)
(*  - a loosely typed env value is a record [t, s, b]: its Python type,    *)
(*    its text when a str, its truth value when a bool;                    *)
(*  - a Python dict is a sequence of <<key, value>> pairs in insertion     *)
(*    order, a list is a sequence.                                         *)
(***************************************************************************)
EXTENDS Integers, Sequences, FiniteSets, TLC

VARIABLES
    env,               \* self.env: the inputs of the run, and the files behind PARENT_RECIPES
    pc,                \* position of main(), or of the caller of optimise_yaml_recipes
    make_categories,   \* local of main(), after lines 256-257
    make_policy,       \* local of main(), after lines 260-261
    add_regex,         \* local of main(), after lines 264-265
    idx,               \* position of the for loop of line 274 (1-based)
    parent_recipe,     \* local of main()
    opened,            \* the upstream recipe files read so far, in order
    warnings,          \* number of WARNING lines written with self.output
    output_file,       \* local of main(), line 319
    data,              \* local of main(): the recipe document
    normalized,        \* local of main(), line 422: what optimise_yaml_recipes returned
    output,            \* local of main(): the serialised text, as lines
    out_file,          \* the output file on disk: <<>> when absent, else <<[path, lines]>>
    exc,               \* the exception that ended the run ("" when none)
    calls              \* number of calls of optimise_yaml_recipes made by its direct caller

vars == <<env, pc, make_categories, make_policy, add_regex, idx, parent_recipe,
          opened, warnings, output_file, data, normalized, output, out_file, exc, calls>>

----------------------------------------------------------------------------
(* Bounds of the model *)

\* longest NAME stem (characters) drawn for the run
MaxNameLen == 2
\* longest Identifier (characters) of a parent recipe file
MaxIdentLen == 3
\* longest PARENT_RECIPES list
MaxCandidates == 2
\* most keys of an Input dictionary handed to optimise_yaml_recipes directly
MaxInputKeys == 3
\* most successive calls of optimise_yaml_recipes by a direct caller
MaxCalls == 2

----------------------------------------------------------------------------
(* Python values and strings *)

PyNone == [t |-> "NoneType", s |-> <<>>, b |-> FALSE]

PyStr(chars) == [t |-> "str", s |-> chars, b |-> FALSE]

PyBool(v) == [t |-> "bool", s |-> <<>>, b |-> v]

\* bool(x) of Python for None, str and bool
Truthy(x) ==
    CASE x.t = "NoneType" -> FALSE
      [] x.t = "bool" -> x.b
      [] x.t = "str" -> x.s # <<>>

\* x == "..." of Python against a str literal
PyEqStr(x, chars) == x.t = "str" /\ x.s = chars

\* sub in s
Contains(sub, s) ==
    \E i \in 0..(Len(s) - Len(sub)) : SubSeq(s, i + 1, i + Len(sub)) = sub

\* s.replace(old, new) for a one-character old
RECURSIVE replace(_, _, _)
replace(s, old, new) ==
    IF s = <<>> THEN <<>>
    ELSE (IF Head(s) = old THEN new ELSE <<Head(s)>>) \o replace(Tail(s), old, new)

\* os.path.basename(p): what follows the last "/" (posixpath: p[p.rfind("/") + 1:])
RECURSIVE rfind(_, _)
rfind(p, ch) ==
    IF p = <<>> THEN 0
    ELSE IF p[Len(p)] = ch THEN Len(p)
    ELSE rfind(SubSeq(p, 1, Len(p) - 1), ch)

basename(p) == SubSeq(p, rfind(p, "/") + 1, Len(p))

\* all sequences over S of length at most n
SeqsUpTo(S, n) == UNION {[1..k -> S] : k \in 0..n}

----------------------------------------------------------------------------
(* Python dicts as sequences of <<key, value>> pairs *)

Keys(d) == [i \in 1..Len(d) |-> d[i][1]]

Has(d, k) == \E i \in 1..Len(d) : d[i][1] = k

Get(d, k) == d[CHOOSE i \in 1..Len(d) : d[i][1] = k][2]

\* d[k] = v: replaces in place when the key exists, else appends
Set(d, k, v) ==
    IF Has(d, k)
    THEN [i \in 1..Len(d) |-> IF d[i][1] = k THEN <<k, v>> ELSE d[i]]
    ELSE Append(d, <<k, v>>)

\* OrderedDict.move_to_end(k)
move_to_end(d, k) ==
    SelectSeq(d, LAMBDA kv : kv[1] # k) \o SelectSeq(d, LAMBDA kv : kv[1] = k)

\* reversed(list(d.items()))
reversed(d) == [i \in 1..Len(d) |-> d[Len(d) + 1 - i]]

\* concatenation of a sequence of sequences
RECURSIVE Flatten(_)
Flatten(ss) == IF ss = <<>> THEN <<>> ELSE Head(ss) \o Flatten(Tail(ss))

----------------------------------------------------------------------------
(* String literals of the source *)

\* ".jamf."
JamfSegment == <<".", "j", "a", "m", "f", ".">>

\* "-pkg-upload"
PkgUploadSuffix == <<"-", "p", "k", "g", "-", "u", "p", "l", "o", "a", "d">>

\* ".jss."
JssMark == <<".", "j", "s", "s", ".">>

\* "local."
LocalMark == <<"l", "o", "c", "a", "l", ".">>

\* ".pkg.recipe"
PkgRecipeMark == <<".", "p", "k", "g", ".", "r", "e", "c", "i", "p", "e">>

\* ".yaml"
YamlMark == <<".", "y", "a", "m", "l">>

\* "False"
FalseLiteral == <<"F", "a", "l", "s", "e">>

CategoryUploader == <<"com.github.grahampugh.jamf-upload.processors/JamfCategoryUploader">>

PackageUploader == <<"com.github.grahampugh.jamf-upload.processors/JamfPackageUploader">>

StopProcessingIf == <<"StopProcessingIf">>

VersionRegexGenerator == <<"com.github.grahampugh.recipes.commonprocessors/VersionRegexGenerator">>

ComputerGroupUploader == <<"com.github.grahampugh.jamf-upload.processors/JamfComputerGroupUploader">>

PolicyUploader == <<"com.github.grahampugh.jamf-upload.processors/JamfPolicyUploader">>

----------------------------------------------------------------------------
(* main(): the flags *)

\* Faulty variant: the "False" string of an override is not recognised.
normalize_flag_truthiness_only(x) == IF ~Truthy(x) THEN PyBool(FALSE) ELSE x

\* if not flag or flag == "False": flag = False
normalize_flag(x) ==
    IF ~Truthy(x) \/ PyEqStr(x, FalseLiteral) THEN PyBool(FALSE) ELSE x

----------------------------------------------------------------------------
(* main(): the parent recipe *)

\* ".jss." in RECIPE_CACHE_DIR or "local." in RECIPE_CACHE_DIR
is_downstream(cache_dir) == Contains(JssMark, cache_dir) \/ Contains(LocalMark, cache_dir)

\* ".pkg.recipe" in recipe
is_pkg_recipe(path) == Contains(PkgRecipeMark, path)

\* the parser the code picks for a candidate: ".yaml" in recipe
parser_for(path) == IF Contains(YamlMark, path) THEN "yaml" ELSE "plist"

\* open(recipe) raises IOError: there is no such file
open_raises(file) == file.kind = "missing"

\* yaml.safe_load / load_plist raises: the content is not a document of the
\* format the path announced
parse_raises(path, file) == file.kind # parser_for(path)

\* parent_recipe_data["Identifier"] raises KeyError
lookup_raises(file) == ~file.hasId

\* Faulty variant: the parent is the final dot-delimited segment of the Identifier.
last_dot_segment(identifier) == SubSeq(identifier, rfind(identifier, ".") + 1, Len(identifier))

\* os.path.basename(parent_recipe_data["Identifier"])
parent_of(identifier) == basename(identifier)

\* Faulty variant: the loop stops at the first candidate it consulted.
break_after(i, n) == n + 1

\* the for loop of line 274 goes on to the next candidate
next_candidate(i, n) == i + 1

----------------------------------------------------------------------------
(* main(): the file name and the document *)

\* Faulty variant: a missing name is taken for the empty string.
name_replace_never_raises(name) == FALSE

\* name.replace(" ", "") raises AttributeError on None
name_replace_raises(name) == name.t # "str"

\* lines 313-318
file_name(name, policy, recipe_format) ==
    replace(name, " ", <<>>)
      \o (IF Truthy(policy) THEN <<".jamf.recipe">> ELSE <<"-pkg-upload.jamf.recipe">>)
      \o (IF PyEqStr(recipe_format, <<"yaml">>) THEN <<".yaml">> ELSE <<>>)

\* os.path.join(output_file_path, output_file_name) for a relative file name
path_join(dir, file) ==
    IF dir = <<>> \/ dir[Len(dir)] = "/" THEN dir \o file ELSE dir \o <<"/">> \o file

\* Faulty variant: the identifier keeps the value of line 329 whatever make_policy is.
identifier_always_suffixed(prefix, name, policy) ==
    prefix \o JamfSegment \o replace(name, " ", <<>>) \o PkgUploadSuffix

\* lines 336-341
identifier_of(prefix, name, policy) ==
    IF Truthy(policy)
    THEN prefix \o JamfSegment \o replace(name, " ", <<>>)
    ELSE prefix \o JamfSegment \o replace(name, " ", <<>>) \o PkgUploadSuffix

\* a processor with Arguments
processor(name, arguments) == << <<"Processor", name>>, <<"Arguments", arguments>> >>

\* Faulty variant: the package upload is only added when no policy is made.
process_without_upload(categories, policy, regex) ==
    (IF Truthy(categories)
     THEN << processor(CategoryUploader, << <<"category_name", <<"%CATEGORY%">>>> >>) >>
     ELSE <<>>)
    \o (IF Truthy(policy)
        THEN << processor(StopProcessingIf, << <<"predicate", <<"%UPDATE_PREDICATE%">>>> >>) >>
        ELSE << processor(PackageUploader, << <<"pkg_category", <<"%CATEGORY%">>>> >>) >>)

\* Faulty variant: VersionRegexGenerator is added outside the make_policy block.
process_regex_ungated(categories, policy, regex) ==
    (IF Truthy(categories)
     THEN << processor(CategoryUploader, << <<"category_name", <<"%CATEGORY%">>>> >>) >>
     ELSE <<>>)
    \o << processor(PackageUploader, << <<"pkg_category", <<"%CATEGORY%">>>> >>) >>
    \o (IF Truthy(regex) THEN << << <<"Processor", VersionRegexGenerator>> >> >> ELSE <<>>)

\* lines 343-417: data["Process"] after the appends
process_of(categories, policy, regex) ==
    LET p0 == <<>>
        p1 == IF Truthy(categories)
              THEN Append(p0, processor(CategoryUploader,
                                        << <<"category_name", <<"%CATEGORY%">>>> >>))
              ELSE p0
        p2 == Append(p1, processor(PackageUploader, << <<"pkg_category", <<"%CATEGORY%">>>> >>))
        p3 == Append(p2, processor(StopProcessingIf,
                                   << <<"predicate", <<"%UPDATE_PREDICATE%">>>> >>))
        p4 == IF Truthy(regex)
              THEN Append(p3, << <<"Processor", VersionRegexGenerator>> >>)
              ELSE p3
        p5 == Append(p4, processor(ComputerGroupUploader,
                                   << <<"computergroup_name", <<"%GROUP_NAME%">>>>,
                                      <<"computergroup_template", <<"%GROUP_TEMPLATE%">>>> >>))
        p6 == IF Truthy(categories)
              THEN Append(p5, processor(CategoryUploader,
                                        << <<"category_name", <<"%POLICY_CATEGORY%">>>> >>))
              ELSE p5
        p7 == Append(p6, processor(PolicyUploader,
                                   << <<"policy_name", <<"%POLICY_NAME%">>>>,
                                      <<"policy_template", <<"%POLICY_TEMPLATE%">>>>,
                                      <<"icon", <<"%SELF_SERVICE_ICON%">>>> >>))
    IN  IF Truthy(policy) THEN p7 ELSE p2

\* line 333 and lines 362-371: data["Input"]
input_of(e, policy) ==
    LET base == << <<"NAME", e.NAME.s>>, <<"CATEGORY", e.CATEGORY>> >>
    IN  IF Truthy(policy)
        THEN base \o
             << <<"GROUP_NAME", e.GROUP_NAME>>,
                <<"GROUP_TEMPLATE", e.group_template>>,
                <<"TESTING_GROUP_NAME", <<"Testing">>>>,
                <<"POLICY_CATEGORY", <<"Testing">>>>,
                <<"POLICY_NAME", e.POLICY_NAME>>,
                <<"POLICY_TEMPLATE", e.policy_template>>,
                <<"SELF_SERVICE_DISPLAY_NAME", e.POLICY_NAME>>,
                <<"SELF_SERVICE_DESCRIPTION", e.SELF_SERVICE_DESCRIPTION>>,
                <<"SELF_SERVICE_ICON", <<"%NAME%.png">>>>,
                <<"UPDATE_PREDICATE", <<"pkg_uploaded == False">>>> >>
        ELSE base

\* lines 323-417: the document main() assembles
build_data(e, categories, policy, regex, parent) ==
    << <<"Comment", <<"Recipe automatically generated from ">>
                      \o basename(e.RECIPE_CACHE_DIR) \o <<" by JamfRecipeMaker">> >>,
       <<"Identifier", identifier_of(e.RECIPE_IDENTIFIER_PREFIX, e.NAME.s, policy)>>,
       <<"ParentRecipe", parent>>,
       <<"MinimumVersion", <<"2.3">>>>,
       <<"Input", input_of(e, policy)>>,
       <<"Process", process_of(categories, policy, regex)>> >>

----------------------------------------------------------------------------
(* optimise_yaml_recipes *)

\* lines 177-183: Comment, then Arguments, moved to the end of one processor
optimise_processor(p) ==
    LET p1 == IF Has(p, "Comment") THEN move_to_end(p, "Comment") ELSE p
    IN  IF Has(p1, "Arguments") THEN move_to_end(p1, "Arguments") ELSE p1

\* Faulty variant: the Input dictionary is not reversed back after NAME was moved.
optimise_input_not_restored(input) ==
    IF Has(input, "NAME") THEN move_to_end(reversed(input), "NAME") ELSE input

\* lines 187-191: the new value of recipe["Input"]
optimise_input(input) ==
    LET moved == IF Has(input, "NAME")
                 THEN move_to_end(reversed(input), "NAME")
                 ELSE input
    IN  reversed(moved)

\* lines 193-202
desired_order ==
    <<"Comment", "Description", "Identifier", "ParentRecipe", "MinimumVersion",
      "Input", "Process", "ParentRecipeTrustInfo">>

\* the whole function: recipe is the argument as the call leaves it (the function
\* assigns recipe["Process"] and recipe["Input"]), result is what it returns
optimise_yaml_recipes(recipe) ==
    LET r1 == IF Has(recipe, "Process")
              THEN Set(recipe, "Process",
                       [i \in 1..Len(Get(recipe, "Process")) |->
                           optimise_processor(Get(recipe, "Process")[i])])
              ELSE recipe
        r2 == IF Has(r1, "Input")
              THEN Set(r1, "Input", optimise_input(Get(r1, "Input")))
              ELSE r1
        desired_list == SelectSeq(desired_order, LAMBDA k : Has(r2, k))
    IN  [recipe |-> r2,
         result |-> [i \in 1..Len(desired_list) |->
                        <<desired_list[i], Get(r2, desired_list[i])>>]]

----------------------------------------------------------------------------
(* Serialisation.  The text is modelled as its lines. *)

\* the keys of the documents in the order Python sorts them
KeyOrder ==
    <<"Arguments", "CATEGORY", "Comment", "Description", "GROUP_NAME", "GROUP_TEMPLATE",
      "Identifier", "Input", "MinimumVersion", "NAME", "POLICY_CATEGORY", "POLICY_NAME",
      "POLICY_TEMPLATE", "ParentRecipe", "ParentRecipeTrustInfo", "Process", "Processor",
      "SELF_SERVICE_DESCRIPTION", "SELF_SERVICE_DISPLAY_NAME", "SELF_SERVICE_ICON",
      "TESTING_GROUP_NAME", "UPDATE_PREDICATE", "category_name", "computergroup_name",
      "computergroup_template", "icon", "pkg_category", "policy_name", "policy_template",
      "predicate">>

\* sorted(d.items()): what plistlib (sort_keys=True, its default) and ruamel's
\* representer of a plain dict write
sorted_items(d) ==
    LET ks == SelectSeq(KeyOrder, LAMBDA k : Has(d, k))
    IN  [i \in 1..Len(ks) |-> <<ks[i], Get(d, ks[i])>>]

IsDictKey(k) == k \in {"Input", "Arguments"}

IsListKey(k) == k = "Process"

PlistLine(tag, text) == [tag |-> tag, text |-> text]

\* a dict of strings: Input, Arguments
plist_flat_dict(d) ==
    <<PlistLine("<dict>", <<>>)>>
    \o Flatten([i \in 1..Len(sorted_items(d)) |->
          <<PlistLine("<key>", <<sorted_items(d)[i][1]>>),
            PlistLine("<string>", sorted_items(d)[i][2])>>])
    \o <<PlistLine("</dict>", <<>>)>>

plist_entry(kv) ==
    <<PlistLine("<key>", <<kv[1]>>)>>
    \o (IF IsDictKey(kv[1]) THEN plist_flat_dict(kv[2])
        ELSE <<PlistLine("<string>", kv[2])>>)

\* one processor of Process
plist_processor(p) ==
    <<PlistLine("<dict>", <<>>)>>
    \o Flatten([i \in 1..Len(sorted_items(p)) |-> plist_entry(sorted_items(p)[i])])
    \o <<PlistLine("</dict>", <<>>)>>

plist_top_entry(kv) ==
    IF IsListKey(kv[1])
    THEN <<PlistLine("<key>", <<kv[1]>>), PlistLine("<array>", <<>>)>>
         \o Flatten([i \in 1..Len(kv[2]) |-> plist_processor(kv[2][i])])
         \o <<PlistLine("</array>", <<>>)>>
    ELSE plist_entry(kv)

\* plistlib.dumps(data).decode("utf-8").splitlines()
write_plist(doc) ==
    <<PlistLine("<?xml>", <<>>), PlistLine("<!DOCTYPE>", <<>>), PlistLine("<plist>", <<>>),
      PlistLine("<dict>", <<>>)>>
    \o Flatten([i \in 1..Len(sorted_items(doc)) |-> plist_top_entry(sorted_items(doc)[i])])
    \o <<PlistLine("</dict>", <<>>), PlistLine("</plist>", <<>>)>>

\* lines 160-162: the lines, and the empty last line that ends the text in "\n"
convert_to_plist(doc) == Append(write_plist(doc), PlistLine("", <<>>))

\* a line of yaml: "key: val", or "key:" when a block follows (nested), with a
\* leading "- " when it opens a list item (dash); blank is an empty line
YamlLine(indent, dash, key, val, nested) ==
    [indent |-> indent, dash |-> dash, key |-> key, val |-> val, nested |-> nested,
     blank |-> FALSE]

BlankLine ==
    [indent |-> 0, dash |-> FALSE, key |-> "", val |-> <<>>, nested |-> FALSE, blank |-> TRUE]

\* a mapping of strings at an indent
yaml_flat_mapping(items, indent) ==
    [i \in 1..Len(items) |-> YamlLine(indent, FALSE, items[i][1], items[i][2], FALSE)]

\* an entry whose value is a dict: Input is an OrderedDict (represent_ordereddict
\* keeps its order), Arguments a plain dict (ruamel sorts it)
yaml_dict_entry(kv, indent, dash) ==
    IF kv[2] = <<>>
    THEN <<YamlLine(indent, dash, kv[1], <<"{}">>, FALSE)>>
    ELSE <<YamlLine(indent, dash, kv[1], <<>>, TRUE)>>
         \o yaml_flat_mapping(IF kv[1] = "Arguments" THEN sorted_items(kv[2]) ELSE kv[2],
                              indent + 2)

yaml_entry(kv, indent, dash) ==
    IF IsDictKey(kv[1]) THEN yaml_dict_entry(kv, indent, dash)
    ELSE <<YamlLine(indent, dash, kv[1], kv[2], FALSE)>>

\* one processor, an item of the Process list: "- " before its first key
yaml_processor(p) ==
    Flatten([i \in 1..Len(p) |-> yaml_entry(p[i], IF i = 1 THEN 0 ELSE 2, i = 1)])

yaml_top_entry(kv) ==
    IF IsListKey(kv[1])
    THEN IF kv[2] = <<>>
         THEN <<YamlLine(0, FALSE, kv[1], <<"[]">>, FALSE)>>
         ELSE <<YamlLine(0, FALSE, kv[1], <<>>, TRUE)>>
              \o Flatten([i \in 1..Len(kv[2]) |-> yaml_processor(kv[2][i])])
    ELSE yaml_entry(kv, 0, FALSE)

\* lines 142-156: dump(data, width=inf, default_flow_style=False) with the
\* OrderedDict representer registered
convert_to_yaml(doc) == Flatten([i \in 1..Len(doc) |-> yaml_top_entry(doc[i])])

\* lines 212-213: the line starts one of the items that get an empty line before
starts_section(line) ==
    /\ ~line.blank
    /\ \/ ~line.dash /\ line.key \in {"Input", "Process", "ParentRecipeTrustInfo"}
       \/ line.dash /\ line.key = "Processor"

\* lines 208-238 for text without escaped newlines: an empty line before each
\* section, none between "Process:" and its first item, and an empty last line
format_yaml_recipes(lines) ==
    LET spaced == Flatten([i \in 1..Len(lines) |->
                      IF starts_section(lines[i]) THEN <<BlankLine, lines[i]>>
                      ELSE <<lines[i]>>])
        kept(i) == ~ ( /\ spaced[i].blank
                       /\ i > 1 /\ i < Len(spaced)
                       /\ spaced[i - 1].key = "Process" /\ spaced[i - 1].nested
                       /\ spaced[i + 1].dash )
        idxs == SelectSeq([i \in 1..Len(spaced) |-> i], kept)
    IN  Append([i \in 1..Len(idxs) |-> spaced[idxs[i]]], BlankLine)

----------------------------------------------------------------------------
(* The inputs of a run *)

None == PyNone

\* the representations a flag may arrive in
FlagValues ==
    {None, PyStr(<<>>), PyStr(FalseLiteral), PyStr(<<"f", "a", "l", "s", "e">>),
     PyStr(<<"T", "r", "u", "e">>), PyBool(FALSE), PyBool(TRUE)}

NameStems == SeqsUpTo({"F", " "}, MaxNameLen)

\* NAME: absent, a stem, or a stem followed by "-pkg-upload"
Names ==
    {None} \cup {PyStr(s) : s \in NameStems} \cup {PyStr(s \o PkgUploadSuffix) : s \in NameStems}

Prefixes == {<<"o">>, <<"c", ".", "p">>}

Formats == {PyStr(<<"yaml">>), PyStr(<<"plist">>), PyStr(<<"json">>)}

\* "/c/x.F": a recipe that is neither a .jss recipe nor an override
UpstreamCacheDir == <<"/", "c", "/", "x", ".", "F">>

\* "/c/local.F", "/c/x.jss.F", and "/local.c/F" (the mark in the directory part)
DownstreamCacheDirs ==
    { <<"/", "c", "/">> \o LocalMark \o <<"F">>,
      <<"/", "c", "/", "x">> \o JssMark \o <<"F">>,
      <<"/">> \o LocalMark \o <<"c", "/", "F">> }

MissingFile == [kind |-> "missing", hasId |-> FALSE, Identifier |-> <<>>]

MalformedFile == [kind |-> "malformed", hasId |-> FALSE, Identifier |-> <<>>]

\* a well-formed recipe file of a format, with an Identifier or without
RecipeFile(kind, hasId, identifier) ==
    [kind |-> kind, hasId |-> hasId, Identifier |-> identifier]

\* "a.pkg.recipe"
PlistPkgPath == <<"a">> \o PkgRecipeMark

\* "b.pkg.recipe.yaml"
YamlPkgPath == <<"b">> \o PkgRecipeMark \o YamlMark

\* "c.download.recipe"
DownloadPath == <<"c", ".", "d", "o", "w", "n", "l", "o", "a", "d", ".", "r", "e", "c", "i", "p", "e">>

Candidate(path, file) == [path |-> path, file |-> file]

\* "x.F" and "d/G"
SomeIdentifiers == { <<"x", ".", "F">>, <<"d", "/", "G">> }

\* the candidates of PARENT_RECIPES: each .pkg.recipe path over a missing file, a
\* malformed one, a recipe without Identifier and recipes with one; a file of the
\* other format under the plist path; and a .download recipe
Candidates ==
    UNION { { Candidate(pth, f) :
                f \in {MissingFile, MalformedFile}
                      \cup {RecipeFile(parser_for(pth), FALSE, <<>>)}
                      \cup {RecipeFile(parser_for(pth), TRUE, id) : id \in SomeIdentifiers} } :
            pth \in {PlistPkgPath, YamlPkgPath} }
    \cup { Candidate(PlistPkgPath, RecipeFile("yaml", TRUE, <<"x", ".", "F">>)),
           Candidate(DownloadPath, RecipeFile("plist", TRUE, <<"x", ".", "D">>)) }

ParentRecipes(list) == [present |-> TRUE, list |-> list]

NoParentRecipes == [present |-> FALSE, list |-> <<>>]

Identifiers == SeqsUpTo({"x", ".", "/"}, MaxIdentLen)

BaseEnv ==
    [ NAME |-> PyStr(<<"F", " ", "x">>),
      RECIPE_IDENTIFIER_PREFIX |-> <<"c", ".", "p">>,
      CATEGORY |-> <<"Software">>,
      SELF_SERVICE_DESCRIPTION |-> <<"">>,
      GROUP_NAME |-> <<"SW - Patch Management">>,
      group_template |-> <<"_Smart_Group.xml">>,
      POLICY_NAME |-> <<"%NAME% - Installer From AutoPKG">>,
      policy_template |-> <<"_Install_Policy.xml">>,
      make_categories |-> PyBool(FALSE),
      make_policy |-> PyBool(FALSE),
      add_regex |-> PyBool(FALSE),
      format |-> PyStr(<<"yaml">>),
      RECIPE_OUTPUT_PATH |-> <<".">>,
      output_dir_writable |-> TRUE,
      RECIPE_CACHE_DIR |-> UpstreamCacheDir,
      PARENT_RECIPES |-> NoParentRecipes ]

\* every representation of every flag, for each format, with and without a name
FlagRuns ==
    { [BaseEnv EXCEPT !.make_categories = c, !.make_policy = p, !.add_regex = r,
                      !.format = f, !.NAME = n] :
        c \in FlagValues, p \in FlagValues, r \in FlagValues, f \in Formats,
        n \in {None, PyStr(<<"F", " ", "x">>)} }

\* every name and prefix, with and without a policy, the output directory
\* writable or not
NameRuns ==
    { [BaseEnv EXCEPT !.NAME = n, !.RECIPE_IDENTIFIER_PREFIX = x, !.make_policy = PyBool(p),
                      !.output_dir_writable = w] :
        n \in Names, x \in Prefixes, p \in BOOLEAN, w \in BOOLEAN }

\* the lists of candidates: one path names one file
CandidateLists ==
    { l \in SeqsUpTo(Candidates, MaxCandidates) :
        \A i, j \in 1..Len(l) : l[i].path = l[j].path => l[i].file = l[j].file }

\* a downstream recipe with every list of candidates, or with no PARENT_RECIPES
ResolveRuns ==
    { [BaseEnv EXCEPT !.RECIPE_CACHE_DIR = d, !.PARENT_RECIPES = ps] :
        d \in DownstreamCacheDirs,
        ps \in {NoParentRecipes} \cup {ParentRecipes(l) : l \in CandidateLists} }

\* a downstream recipe whose parent file holds any Identifier
IdentifierRuns ==
    { [BaseEnv EXCEPT !.RECIPE_CACHE_DIR = <<"/", "c", "/">> \o LocalMark \o <<"F">>,
                      !.PARENT_RECIPES =
                          ParentRecipes(<<Candidate(pth, RecipeFile(parser_for(pth), TRUE, id))>>)] :
        pth \in {PlistPkgPath, YamlPkgPath}, id \in Identifiers }

----------------------------------------------------------------------------
(* main() *)

Unset ==
    /\ make_categories = None /\ make_policy = None /\ add_regex = None
    /\ idx = 0 /\ parent_recipe = <<>> /\ opened = <<>> /\ warnings = 0
    /\ output_file = <<>> /\ data = <<>> /\ normalized = <<>> /\ output = <<>>
    /\ out_file = <<>> /\ exc = "" /\ calls = 0

Init ==
    /\ env \in FlagRuns \cup NameRuns \cup ResolveRuns \cup IdentifierRuns
    /\ pc = "start"
    /\ Unset

Raise(e) ==
    /\ pc' = "failed"
    /\ exc' = e

\* lines 244-270
ReadEnv ==
    /\ pc = "start"
    /\ make_categories' = normalize_flag(env.make_categories)
    /\ make_policy' = normalize_flag(env.make_policy)
    /\ add_regex' = normalize_flag(env.add_regex)
    /\ parent_recipe' = <<>>
    /\ pc' = "resolve"
    /\ UNCHANGED <<env, idx, opened, warnings, output_file, data, normalized, output,
                   out_file, exc, calls>>

\* lines 309-310: not a downstream recipe
ResolveFromCacheDir ==
    /\ pc = "resolve"
    /\ ~is_downstream(env.RECIPE_CACHE_DIR)
    /\ parent_recipe' = basename(env.RECIPE_CACHE_DIR)
    /\ pc' = "resolved"
    /\ UNCHANGED <<env, make_categories, make_policy, add_regex, idx, opened, warnings,
                   output_file, data, normalized, output, out_file, exc, calls>>

\* lines 271-274: the loop starts; iterating None raises TypeError
EnterLoop ==
    /\ pc = "resolve"
    /\ is_downstream(env.RECIPE_CACHE_DIR)
    /\ IF env.PARENT_RECIPES.present
       THEN pc' = "loop" /\ idx' = 1 /\ exc' = exc
       ELSE Raise("TypeError") /\ idx' = idx
    /\ UNCHANGED <<env, make_categories, make_policy, add_regex, parent_recipe, opened,
                   warnings, output_file, data, normalized, output, out_file, calls>>

InLoop ==
    /\ pc = "loop"
    /\ idx <= Len(env.PARENT_RECIPES.list)

Current == env.PARENT_RECIPES.list[idx]

\* line 275: not a .pkg.recipe
SkipCandidate ==
    /\ InLoop
    /\ ~is_pkg_recipe(Current.path)
    /\ idx' = next_candidate(idx, Len(env.PARENT_RECIPES.list))
    /\ UNCHANGED <<env, pc, make_categories, make_policy, add_regex, parent_recipe, opened,
                   warnings, output_file, data, normalized, output, out_file, exc, calls>>

\* lines 277-288: the file is read and holds an Identifier
ReadParent ==
    /\ InLoop
    /\ is_pkg_recipe(Current.path)
    /\ ~open_raises(Current.file)
    /\ ~parse_raises(Current.path, Current.file)
    /\ ~lookup_raises(Current.file)
    /\ opened' = Append(opened, Current.path)
    /\ parent_recipe' = parent_of(Current.file.Identifier)
    /\ idx' = next_candidate(idx, Len(env.PARENT_RECIPES.list))
    /\ UNCHANGED <<env, pc, make_categories, make_policy, add_regex, warnings, output_file,
                   data, normalized, output, out_file, exc, calls>>

\* lines 289-299: open() raised IOError
ParentNotFound ==
    /\ InLoop
    /\ is_pkg_recipe(Current.path)
    /\ open_raises(Current.file)
    /\ warnings' = warnings + 1
    /\ parent_recipe' = basename(env.RECIPE_CACHE_DIR)
    /\ idx' = next_candidate(idx, Len(env.PARENT_RECIPES.list))
    /\ UNCHANGED <<env, pc, make_categories, make_policy, add_regex, opened, output_file,
                   data, normalized, output, out_file, exc, calls>>

\* lines 277-288: the parser or the lookup raises, and except IOError does not
\* catch it
ParentUnreadable ==
    /\ InLoop
    /\ is_pkg_recipe(Current.path)
    /\ ~open_raises(Current.file)
    /\ parse_raises(Current.path, Current.file) \/ lookup_raises(Current.file)
    /\ opened' = Append(opened, Current.path)
    /\ Raise(IF parse_raises(Current.path, Current.file) THEN "ParseError" ELSE "KeyError")
    /\ UNCHANGED <<env, make_categories, make_policy, add_regex, idx, parent_recipe,
                   warnings, output_file, data, normalized, output, out_file, calls>>

\* lines 300-308: after the loop
LeaveLoop ==
    /\ pc = "loop"
    /\ idx > Len(env.PARENT_RECIPES.list)
    /\ IF parent_recipe = <<>>
       THEN /\ warnings' = warnings + 1
            /\ parent_recipe' = basename(env.RECIPE_CACHE_DIR)
       ELSE UNCHANGED <<warnings, parent_recipe>>
    /\ pc' = "resolved"
    /\ UNCHANGED <<env, make_categories, make_policy, add_regex, idx, opened, output_file,
                   data, normalized, output, out_file, exc, calls>>

\* lines 312-319
NameOutputFile ==
    /\ pc = "resolved"
    /\ IF name_replace_raises(env.NAME)
       THEN Raise("AttributeError") /\ output_file' = output_file
       ELSE /\ output_file' = path_join(env.RECIPE_OUTPUT_PATH,
                                        file_name(env.NAME.s, make_policy, env.format))
            /\ pc' = "named"
            /\ exc' = exc
    /\ UNCHANGED <<env, make_categories, make_policy, add_regex, idx, parent_recipe, opened,
                   warnings, data, normalized, output, out_file, calls>>

\* lines 323-417
Assemble ==
    /\ pc = "named"
    /\ data' = build_data(env, make_categories, make_policy, add_regex, parent_recipe)
    /\ pc' = "assembled"
    /\ UNCHANGED <<env, make_categories, make_policy, add_regex, idx, parent_recipe, opened,
                   warnings, output_file, normalized, output, out_file, exc, calls>>

\* lines 419-424
Convert ==
    /\ pc = "assembled"
    /\ IF PyEqStr(env.format, <<"plist">>)
       THEN /\ output' = convert_to_plist(data)
            /\ UNCHANGED <<data, normalized>>
       ELSE LET optimised == optimise_yaml_recipes(data)
            IN  /\ data' = optimised.recipe
                /\ normalized' = optimised.result
                /\ output' = format_yaml_recipes(convert_to_yaml(optimised.result))
    /\ pc' = "converted"
    /\ UNCHANGED <<env, make_categories, make_policy, add_regex, idx, parent_recipe, opened,
                   warnings, output_file, out_file, exc, calls>>

\* line 425: open(output_file, "w") creates or empties the file
OpenOutput ==
    /\ pc = "converted"
    /\ IF env.output_dir_writable
       THEN /\ out_file' = <<[path |-> output_file, lines |-> <<>>]>>
            /\ pc' = "opened"
            /\ exc' = exc
       ELSE Raise("IOError") /\ out_file' = out_file
    /\ UNCHANGED <<env, make_categories, make_policy, add_regex, idx, parent_recipe, opened,
                   warnings, output_file, data, normalized, output, calls>>

\* lines 426-427
WriteOutput ==
    /\ pc = "opened"
    /\ out_file' = <<[path |-> output_file, lines |-> output]>>
    /\ pc' = "done"
    /\ UNCHANGED <<env, make_categories, make_policy, add_regex, idx, parent_recipe, opened,
                   warnings, output_file, data, normalized, output, exc, calls>>

Next ==
    \/ ReadEnv
    \/ ResolveFromCacheDir
    \/ EnterLoop
    \/ SkipCandidate
    \/ ReadParent
    \/ ParentNotFound
    \/ ParentUnreadable
    \/ LeaveLoop
    \/ NameOutputFile
    \/ Assemble
    \/ Convert
    \/ OpenOutput
    \/ WriteOutput

Spec == Init /\ [][Next]_vars

----------------------------------------------------------------------------
(* optimise_yaml_recipes called on its own, on any recipe *)

InputKeyPool == {"NAME", "CATEGORY", "GROUP_NAME"}

\* Input dictionaries: up to MaxInputKeys distinct keys in any order
InputDicts ==
    { [i \in 1..Len(ks) |-> <<ks[i], <<"v">>>>] :
        ks \in { q \in SeqsUpTo(InputKeyPool, MaxInputKeys) :
                    \A i, j \in 1..Len(q) : i # j => q[i] # q[j] } }

\* Process lists: empty, or one processor with its keys in some order
ProcessLists ==
    { <<>>,
      << << <<"Processor", <<"P">>>> >> >>,
      << << <<"Processor", <<"P">>>>, <<"Arguments", << <<"icon", <<"i">>>> >> >> >> >>,
      << << <<"Arguments", << <<"icon", <<"i">>>> >> >>, <<"Processor", <<"P">>>> >> >>,
      << << <<"Comment", <<"c">>>>, <<"Arguments", << <<"icon", <<"i">>>> >> >>,
            <<"Processor", <<"P">>>> >> >> }

\* recipes with or without Input and Process, their top-level keys out of order
Recipes ==
    { p \o i \o << <<"Identifier", <<"x">>>>, <<"Comment", <<"c">>>> >> :
        p \in {<<>>} \cup { << <<"Process", l>> >> : l \in ProcessLists },
        i \in {<<>>} \cup { << <<"Input", d>> >> : d \in InputDicts } }

InitOpt ==
    /\ env \in { [recipe |-> r] : r \in Recipes }
    /\ pc = "caller"
    /\ Unset

\* lines 164-206, called on the recipe, then on what the call before returned
CallOptimise ==
    /\ pc = "caller"
    /\ calls < MaxCalls
    /\ LET optimised == optimise_yaml_recipes(IF calls = 0 THEN env.recipe ELSE normalized)
       IN  /\ data' = optimised.recipe
           /\ normalized' = optimised.result
    /\ calls' = calls + 1
    /\ UNCHANGED <<env, pc, make_categories, make_policy, add_regex, idx, parent_recipe,
                   opened, warnings, output_file, output, out_file, exc>>

NextOpt == CallOptimise

SpecOpt == InitOpt /\ [][NextOpt]_vars

----------------------------------------------------------------------------
(* Properties *)

\* s ends with suffix
EndsWith(s, suffix) ==
    /\ Len(s) >= Len(suffix)
    /\ SubSeq(s, Len(s) - Len(suffix) + 1, Len(s)) = suffix

Assembled == pc \in {"assembled", "converted", "opened", "done"}

Converted == pc \in {"converted", "opened", "done"}

Resolved == pc \in {"resolved", "named", "assembled", "converted", "opened", "done"}

IsPlist == PyEqStr(env.format, <<"plist">>)

HasPackageUpload(process) ==
    \E i \in 1..Len(process) :
        Has(process[i], "Processor") /\ Get(process[i], "Processor") = PackageUploader

\* C1: whatever representation the three flags arrive in, the Process list main()
\* builds is not empty and holds the JamfPackageUploader step, and the step is
\* still in the document optimise_yaml_recipes returns.
C1_PackageUploadPresent ==
    /\ Assembled =>
          /\ Get(data, "Process") # <<>>
          /\ HasPackageUpload(Get(data, "Process"))
    /\ (Converted /\ ~IsPlist) =>
          /\ Has(normalized, "Process")
          /\ HasPackageUpload(Get(normalized, "Process"))

C1_Witness ==
    /\ pc = "done" /\ ~IsPlist
    /\ env.make_categories = PyStr(<<"T", "r", "u", "e">>)
    /\ env.make_policy = PyBool(TRUE)
    /\ env.add_regex = PyStr(<<"f", "a", "l", "s", "e">>)
    /\ HasPackageUpload(Get(normalized, "Process"))

\* the steps of a Process list: each processor with its category_name, if any
StepsOf(process) ==
    [i \in 1..Len(process) |->
        <<Get(process[i], "Processor"),
          IF Has(process[i], "Arguments") /\ Has(Get(process[i], "Arguments"), "category_name")
          THEN Get(Get(process[i], "Arguments"), "category_name")
          ELSE <<>> >>]

Step(name) == <<name, <<>>>>

Only(cond, steps) == IF cond THEN steps ELSE <<>>

\* C2: the Process list is exactly: a category step (%CATEGORY%) iff
\* make_categories; the package upload; and iff make_policy: StopProcessingIf,
\* VersionRegexGenerator iff add_regex, the computer group step, a second category
\* step (%POLICY_CATEGORY%) iff make_categories, the policy step.  Without
\* make_policy nothing follows the package upload, whatever add_regex is.
C2_ProcessSequence ==
    Assembled =>
        StepsOf(Get(data, "Process")) =
            Only(Truthy(make_categories), << <<CategoryUploader, <<"%CATEGORY%">>>> >>)
            \o <<Step(PackageUploader)>>
            \o Only(Truthy(make_policy),
                    <<Step(StopProcessingIf)>>
                    \o Only(Truthy(add_regex), <<Step(VersionRegexGenerator)>>)
                    \o <<Step(ComputerGroupUploader)>>
                    \o Only(Truthy(make_categories),
                            << <<CategoryUploader, <<"%POLICY_CATEGORY%">>>> >>)
                    \o <<Step(PolicyUploader)>>)

C2_Witness ==
    /\ pc = "assembled"
    /\ Truthy(make_categories) /\ Truthy(make_policy) /\ Truthy(add_regex)
    /\ Len(Get(data, "Process")) = 7

NoSpaces(chars) == SelectSeq(chars, LAMBDA c : c # " ")

ExpectedIdentifier ==
    env.RECIPE_IDENTIFIER_PREFIX \o JamfSegment \o NoSpaces(env.NAME.s)
      \o Only(~Truthy(make_policy), PkgUploadSuffix)

\* C3 as stated: the Identifier is {prefix}.jamf.{name without spaces}, followed
\* by -pkg-upload when make_policy is false; so without make_policy it ends with
\* -pkg-upload and with make_policy it does not.
C3_AsStated ==
    Assembled =>
        /\ Get(data, "Identifier") = ExpectedIdentifier
        /\ ~Truthy(make_policy) => EndsWith(Get(data, "Identifier"), PkgUploadSuffix)
        /\ Truthy(make_policy) => ~EndsWith(Get(data, "Identifier"), PkgUploadSuffix)

\* C3, amended: the Identifier is {prefix}.jamf.{name without spaces}, followed by
\* -pkg-upload when make_policy is false; without make_policy it ends with
\* -pkg-upload, and with make_policy it ends with -pkg-upload only when the name
\* without spaces itself does.
C3_Identifier ==
    Assembled =>
        /\ Get(data, "Identifier") = ExpectedIdentifier
        /\ ~Truthy(make_policy) => EndsWith(Get(data, "Identifier"), PkgUploadSuffix)
        /\ Truthy(make_policy) =>
              (EndsWith(Get(data, "Identifier"), PkgUploadSuffix)
                 <=> EndsWith(NoSpaces(env.NAME.s), PkgUploadSuffix))

C3_Witness ==
    /\ pc = "done"
    /\ Truthy(make_policy)
    /\ Contains(<<" ">>, env.NAME.s)
    /\ EndsWith(Get(data, "Identifier"), PkgUploadSuffix)

\* the representations that stand for false
FalsyValues == {None, PyStr(<<>>), PyStr(FalseLiteral), PyBool(FALSE)}

\* the file a run on inputs e writes, given the parent it resolved
FileWritten(e, parent) ==
    LET c == normalize_flag(e.make_categories)
        p == normalize_flag(e.make_policy)
        r == normalize_flag(e.add_regex)
        doc == build_data(e, c, p, r, parent)
    IN  [path |-> path_join(e.RECIPE_OUTPUT_PATH, file_name(e.NAME.s, p, e.format)),
         lines |-> IF PyEqStr(e.format, <<"plist">>)
                   THEN convert_to_plist(doc)
                   ELSE format_yaml_recipes(convert_to_yaml(optimise_yaml_recipes(doc).result))]

\* C4: a flag given as absent, as the empty string, as the string "False" or as
\* boolean false yields the file, name and content, that the same inputs with that
\* flag set to boolean False yield.
C4_FalsyNormalization ==
    pc = "done" =>
        /\ env.make_categories \in FalsyValues =>
              out_file = <<FileWritten([env EXCEPT !.make_categories = PyBool(FALSE)],
                                       parent_recipe)>>
        /\ env.make_policy \in FalsyValues =>
              out_file = <<FileWritten([env EXCEPT !.make_policy = PyBool(FALSE)],
                                       parent_recipe)>>
        /\ env.add_regex \in FalsyValues =>
              out_file = <<FileWritten([env EXCEPT !.add_regex = PyBool(FALSE)],
                                       parent_recipe)>>

C4_Witness ==
    /\ pc = "done"
    /\ env.make_categories = PyStr(<<>>)
    /\ env.make_policy = PyStr(FalseLiteral)
    /\ env.add_regex = None
    /\ Len(out_file) = 1 /\ out_file[1].lines # <<>>

Downstream == is_downstream(env.RECIPE_CACHE_DIR) /\ env.PARENT_RECIPES.present

PkgCandidates ==
    {i \in 1..Len(env.PARENT_RECIPES.list) : is_pkg_recipe(env.PARENT_RECIPES.list[i].path)}

\* a candidate whose file cannot be opened, cannot be parsed or has no Identifier
FailsToResolve(c) ==
    open_raises(c.file) \/ parse_raises(c.path, c.file) \/ lookup_raises(c.file)

\* C5 as stated: for a downstream recipe, a parent file that cannot be opened, is
\* malformed or lacks an Identifier, and the absence of any .pkg.recipe candidate,
\* all end with ParentRecipe the base name of the cache directory and a warning;
\* the failure never ends the run.
C5_AsStated ==
    (Downstream /\ env.NAME.t = "str") =>
        /\ exc \notin {"ParseError", "KeyError"}
        /\ ( /\ pc = "done"
             /\ \/ PkgCandidates = {}
                \/ \E i \in PkgCandidates : FailsToResolve(env.PARENT_RECIPES.list[i]) )
           => /\ Get(data, "ParentRecipe") = basename(env.RECIPE_CACHE_DIR)
              /\ warnings >= 1

\* what follows the last "/" of a path, stated by its properties
AfterLastSlash(chars) ==
    CHOOSE t \in {SubSeq(chars, k, Len(chars)) : k \in 1..(Len(chars) + 1)} :
        /\ ~Contains(<<"/">>, t)
        /\ Len(t) < Len(chars) => chars[Len(chars) - Len(t)] = "/"

\* what follows the last "." of an identifier, stated by its properties
FinalDotSegment(chars) ==
    CHOOSE t \in {SubSeq(chars, k, Len(chars)) : k \in 1..(Len(chars) + 1)} :
        /\ ~Contains(<<".">>, t)
        /\ Len(t) < Len(chars) => chars[Len(chars) - Len(t)] = "."

\* the parent one candidate alone gives, when it does not end the run
OutcomeOf(c) ==
    IF open_raises(c.file) \/ AfterLastSlash(c.file.Identifier) = <<>>
    THEN AfterLastSlash(env.RECIPE_CACHE_DIR)
    ELSE AfterLastSlash(c.file.Identifier)

Least(S) == CHOOSE i \in S : \A j \in S : i <= j

Greatest(S) == CHOOSE i \in S : \A j \in S : i >= j

\* the paths of the .pkg.recipe candidates whose file exists, in list order
ExistingPkgPaths ==
    LET found == SelectSeq(env.PARENT_RECIPES.list,
                           LAMBDA c : is_pkg_recipe(c.path) /\ ~open_raises(c.file))
    IN  [i \in 1..Len(found) |-> found[i].path]

JustRead ==
    /\ pc = "loop" /\ idx > 1 /\ idx <= Len(env.PARENT_RECIPES.list) + 1
    /\ is_pkg_recipe(env.PARENT_RECIPES.list[idx - 1].path)
    /\ ~FailsToResolve(env.PARENT_RECIPES.list[idx - 1])

IdentifierRead == env.PARENT_RECIPES.list[idx - 1].file.Identifier

FirstInputKey(lines) ==
    IF IsPlist
    THEN LET i == CHOOSE i \in 1..Len(lines) :
                      lines[i].tag = "<key>" /\ lines[i].text = <<"Input">>
         IN  lines[i + 2].text[1]
    ELSE LET i == CHOOSE i \in 1..Len(lines) :
                      ~lines[i].blank /\ lines[i].key = "Input" /\ lines[i].indent = 0
         IN  lines[i + 1].key

\* C7 as stated: in the serialised output, plist or yaml, NAME is the first entry
\* under Input, for every flag combination.
C7_AsStated ==
    /\ Converted => FirstInputKey(output) = "NAME"
    /\ pc = "done" => FirstInputKey(out_file[1].lines) = "NAME"

\* C7, amended: in the yaml output (any format but plist) NAME is the first entry
\* under Input, for every flag combination; the plist output lists the Input keys
\* sorted, CATEGORY first.
C7_NameFirstInYaml ==
    /\ Converted => FirstInputKey(output) = (IF IsPlist THEN "CATEGORY" ELSE "NAME")
    /\ pc = "done" =>
          FirstInputKey(out_file[1].lines) = (IF IsPlist THEN "CATEGORY" ELSE "NAME")

C7_Witness ==
    /\ pc = "done" /\ ~IsPlist
    /\ Truthy(make_policy)
    /\ FirstInputKey(out_file[1].lines) = "NAME"
    /\ Len(Get(normalized, "Input")) = 12

\* C8: with the name missing the run ends with an unhandled failure before the
\* output file is opened: no output file exists in any state of such a run.
C8_NoOutputWithoutName ==
    env.NAME = None =>
        /\ out_file = <<>>
        /\ pc \notin {"named", "assembled", "converted", "opened", "done"}
        /\ pc = "failed" => exc \in {"AttributeError", "TypeError", "ParseError", "KeyError"}

C8_Witness ==
    /\ env.NAME = None
    /\ pc = "failed" /\ exc = "AttributeError"
    /\ out_file = <<>>

\* NAME first when present, the other keys in their original relative order
NameFirst(keys) ==
    SelectSeq(keys, LAMBDA k : k = "NAME") \o SelectSeq(keys, LAMBDA k : k # "NAME")

\* C10 as stated: optimise_yaml_recipes never changes the relative order of the
\* Input keys other than NAME: with NAME they follow it in their original order,
\* without NAME the order is left as it was; so a second call changes nothing.
C10_AsStated ==
    (pc = "caller" /\ calls >= 1 /\ Has(env.recipe, "Input")) =>
        Keys(Get(normalized, "Input")) = NameFirst(Keys(Get(env.recipe, "Input")))

====
